---------------------------- MODULE Spec2Model ----------------------------
(***************************************************************************)
(* A model of CppServer's WebSocket client, source/server/ws/ws_client.cpp *)
(* (class WSClient): the HTTP upgrade handshake, the connection callbacks  *)
(* and the encoder of masked outbound frames.                              *)
(*                                                                         *)
(* Strings that the code inspects byte by byte (header values, Base64     *)
(* text, digests) are sequences of character codes / bytes.  Header keys   *)
(* are only compared for equality and stay TLA+ strings.                   *)
(***************************************************************************)
EXTENDS Integers, Sequences, FiniteSets, TLC

VARIABLES
    id,              \* id().string(): the client's identifier, fixed at construction
    _handshaked,     \* bool _handshaked
    _sync_connect,   \* bool _sync_connect
    _mask,           \* uint8_t _mask[4]
    _request,        \* HTTPRequest _request (its cache, as a list of parts)
    _response,       \* HTTPResponse _response of the HTTP layer
    _ws_send_buffer, \* std::vector<uint8_t> _ws_send_buffer
    rx,              \* the response the transport has received and not yet delivered
    tx,              \* the message the application is about to send: <<opcode, length, seed>>
    out,             \* the last operation: its name, _handshaked and the length of
                     \* _ws_send_buffer before it, the calls it made
    connected,       \* history: onConnected delivered and no onDisconnected since
    disconnecting,   \* history: a disconnect was requested since the last onConnected
    maskGenerated,   \* history: line 154 has written _mask
    passes,          \* history: successful validations since the last onConnected
    lifeFlips,       \* history: _handshaked false->true since the last onConnected/onDisconnected
    lifeWSConnected, \* history: onWSConnected calls since the last onConnected/onDisconnected
    periodWSDisc,    \* history: onWSDisconnected calls since the last successful handshake
    lastConnect,     \* history: the most recent connect call, "none" before the first
    wsOpen           \* history: onWSConnected was called and no onWSDisconnected since

vars == <<id, _handshaked, _sync_connect, _mask, _request, _response, _ws_send_buffer,
          rx, tx, out, connected, disconnecting, maskGenerated, passes, lifeFlips,
          lifeWSConnected, periodWSDisc, lastConnect, wsOpen>>

progVars == <<id, _handshaked, _sync_connect, _mask, _request, _response, _ws_send_buffer>>

-----------------------------------------------------------------------------
(* Bounds of the model *)

\* longest header list of a response, in the handshake specification
MaxHeaders == 4

-----------------------------------------------------------------------------
(* Program constants *)

\* response.status() == 101
SwitchingProtocols == 101

\* char wshash[SHA_DIGEST_LENGTH]
SHA_DIGEST_LENGTH == 20

\* size <= 125
MaxSize7 == 125

\* size <= 65535
MaxSize16 == 65535

-----------------------------------------------------------------------------
(* Small helpers *)

Max(a, b) == IF a >= b THEN a ELSE b

SeqsUpTo(S, n) == UNION {[1..k -> S] : k \in 0..n}

Has(calls, c) == \E i \in 1..Len(calls) : calls[i] = c

Count(calls, c) == Cardinality({i \in 1..Len(calls) : calls[i] = c})

-----------------------------------------------------------------------------
(* Strings of the handshake *)

\* "Upgrade"
StrUpgrade == <<85, 112, 103, 114, 97, 100, 101>>

\* "upgrade": a value that differs from "Upgrade" in case only
StrUpgradeLower == <<117, 112, 103, 114, 97, 100, 101>>

\* "websocket"
StrWebsocket == <<119, 101, 98, 115, 111, 99, 107, 101, 116>>

\* "WebSocket"
StrWebSocketCaps == <<87, 101, 98, 83, 111, 99, 107, 101, 116>>

\* "258EAFA5-E914-47DA-95CA-C5AB0DC85B11"
StrGuid == <<50, 53, 56, 69, 65, 70, 65, 53, 45, 69, 57, 49, 52, 45, 52, 55, 68, 65,
             45, 57, 53, 67, 65, 45, 67, 53, 65, 66, 48, 68, 67, 56, 53, 66, 49, 49>>

\* "the sample nonce": the identifier whose key is RFC 6455's sample key
IdSample == <<116, 104, 101, 32, 115, 97, 109, 112, 108, 101, 32, 110, 111, 110, 99, 101>>

\* "id35": an identifier whose digest holds a zero byte (its fifth)
IdZero == <<105, 100, 51, 53>>

Ids == {IdSample, IdZero}

-----------------------------------------------------------------------------
(* Base64 (CppCommon::Encoding), on character codes *)

B64Char(v) ==
    IF v < 26 THEN 65 + v
    ELSE IF v < 52 THEN 97 + (v - 26)
    ELSE IF v < 62 THEN 48 + (v - 52)
    ELSE IF v = 62 THEN 43 ELSE 47

B64Val(c) ==
    IF c >= 65 /\ c <= 90 THEN c - 65
    ELSE IF c >= 97 /\ c <= 122 THEN c - 97 + 26
    ELSE IF c >= 48 /\ c <= 57 THEN c - 48 + 52
    ELSE IF c = 43 THEN 62
    ELSE IF c = 47 THEN 63
    ELSE 0

RECURSIVE Base64Encode(_)
Base64Encode(s) ==
    IF Len(s) = 0 THEN <<>>
    ELSE LET b1 == s[1]
             b2 == IF Len(s) >= 2 THEN s[2] ELSE 0
             b3 == IF Len(s) >= 3 THEN s[3] ELSE 0
             n  == b1 * 65536 + b2 * 256 + b3
             c1 == B64Char(n \div 262144)
             c2 == B64Char((n \div 4096) % 64)
             c3 == IF Len(s) >= 2 THEN B64Char((n \div 64) % 64) ELSE 61
             c4 == IF Len(s) >= 3 THEN B64Char(n % 64) ELSE 61
         IN  IF Len(s) <= 3 THEN <<c1, c2, c3, c4>>
             ELSE <<c1, c2, c3, c4>> \o Base64Encode(SubSeq(s, 4, Len(s)))

RECURSIVE Base64Decode(_)
Base64Decode(t) ==
    IF Len(t) < 4 THEN <<>>
    ELSE LET n  == B64Val(t[1]) * 262144 + B64Val(t[2]) * 4096
                   + B64Val(t[3]) * 64 + B64Val(t[4])
             b1 == n \div 65536
             b2 == (n \div 256) % 256
             b3 == n % 256
             grp == IF t[3] = 61 THEN <<b1>>
                    ELSE IF t[4] = 61 THEN <<b1, b2>>
                    ELSE <<b1, b2, b3>>
         IN  grp \o Base64Decode(SubSeq(t, 5, Len(t)))

-----------------------------------------------------------------------------
(* SHA-1 (OpenSSL), as the table of the digests of the keys that arise *)

\* SHA1("dGhlIHNhbXBsZSBub25jZQ==258EAFA5-E914-47DA-95CA-C5AB0DC85B11")
DigestSample == <<179, 122, 79, 44, 192, 98, 79, 22, 144, 246,
                  70, 6, 207, 56, 89, 69, 178, 190, 196, 234>>

\* SHA1("aWQzNQ==258EAFA5-E914-47DA-95CA-C5AB0DC85B11")
DigestZero == <<184, 227, 193, 32, 0, 146, 197, 49, 80, 128,
                167, 204, 1, 148, 229, 127, 162, 45, 140, 121>>

\* "dGhlIHNhbXBsZSBub25jZQ==258EAFA5-E914-47DA-95CA-C5AB0DC85B11"
KeySample == Base64Encode(IdSample) \o StrGuid

\* "aWQzNQ==258EAFA5-E914-47DA-95CA-C5AB0DC85B11"
KeyZero == Base64Encode(IdZero) \o StrGuid

SHA1(m) ==
    IF m = KeySample THEN DigestSample
    ELSE IF m = KeyZero THEN DigestZero
    ELSE [i \in 1..SHA_DIGEST_LENGTH |-> 0]

\* lines 124-126: the hash the server must have sent
WsHash(cid) == SHA1(Base64Encode(cid) \o StrGuid)


-----------------------------------------------------------------------------
(* std::strncmp(wskey.data(), wshash, n), line 132 *)

\* s1 is a std::string: its data() ends with a zero byte after Len(s1) bytes.
\* s2 is the array wshash: reading s2 past its last byte is undefined, and
\* the call then returns `garbage`, whatever the bytes after the array make it.
RECURSIVE StrncmpFrom(_, _, _, _, _)
StrncmpFrom(s1, s2, n, i, garbage) ==
    IF i > n THEN 0
    ELSE IF i > Len(s2) THEN garbage
    ELSE LET a == IF i <= Len(s1) THEN s1[i] ELSE 0
         IN  IF a # s2[i] THEN (IF a < s2[i] THEN -1 ELSE 1)
             ELSE IF a = 0 THEN 0
             ELSE StrncmpFrom(s1, s2, n, i + 1, garbage)

Strncmp(s1, s2, n, garbage) == StrncmpFrom(s1, s2, n, 1, garbage)

\* lines 124-132: TRUE when the received hash is taken to differ from the original
AcceptMismatch(value, cid, garbage) ==
    LET wskey == Base64Decode(value)
    IN  Strncmp(wskey, WsHash(cid), Max(Len(wskey), SHA_DIGEST_LENGTH), garbage) # 0

-----------------------------------------------------------------------------
(* The calls a handler makes, as they appear in out.calls *)

ErrStatus     == "onError: Invalid WebSocket response status"
ErrConnection == "onError: 'Connection' header value must be 'Upgrade'"
ErrUpgrade    == "onError: 'Upgrade' header value must be 'websocket'"
ErrAccept     == "onError: 'Sec-WebSocket-Accept' value validation failed"
ErrGeneric    == "onError: Invalid WebSocket response"
Errors        == {ErrStatus, ErrConnection, ErrUpgrade, ErrAccept, ErrGeneric}

CallDisconnectAsync   == "DisconnectAsync"
CallWSConnecting      == "onWSConnecting"
CallSetBody           == "SetBody"
CallSend              == "Send"
CallSendAsync         == "SendAsync"
CallWSConnected       == "onWSConnected"
CallWSDisconnected    == "onWSDisconnected"
CallHTTPOnReceived    == "HTTPClient::onReceived"
CallRand              == "rand"
CallHTTPConnect       == "HTTPClient::Connect"
CallHTTPConnectAsync  == "HTTPClient::ConnectAsync"
CallResponseHeader    == "onReceivedResponseHeader"

ErrorCount(calls) == Cardinality({i \in 1..Len(calls) : calls[i] \in Errors})

-----------------------------------------------------------------------------
(* WSClient::onReceivedResponseHeader, lines 79-163 *)

\* lines 88-91
LoopStart == [error |-> FALSE, accept |-> FALSE, connection |-> FALSE,
              upgrade |-> FALSE, calls |-> <<>>]

\* lines 93-141: the loop over the headers, from header i (1-based) in state st
RECURSIVE HeaderLoop(_, _, _, _, _)
HeaderLoop(headers, i, st, cid, garbage) ==
    IF i > Len(headers) THEN st
    ELSE LET key   == headers[i][1]
             value == headers[i][2]
         IN  IF key = "Connection"
             THEN IF value # StrUpgrade
                  THEN [st EXCEPT !.error = TRUE, !.calls = Append(@, ErrConnection)]
                  ELSE HeaderLoop(headers, i + 1, [st EXCEPT !.connection = TRUE],
                                  cid, garbage)
             ELSE IF key = "Upgrade"
             THEN IF value # StrWebsocket
                  THEN [st EXCEPT !.error = TRUE, !.calls = Append(@, ErrUpgrade)]
                  ELSE HeaderLoop(headers, i + 1, [st EXCEPT !.upgrade = TRUE],
                                  cid, garbage)
             ELSE IF key = "Sec-WebSocket-Accept"
             THEN IF AcceptMismatch(value, cid, garbage)
                  THEN [st EXCEPT !.error = TRUE, !.calls = Append(@, ErrAccept)]
                  ELSE HeaderLoop(headers, i + 1, [st EXCEPT !.accept = TRUE],
                                  cid, garbage)
             ELSE HeaderLoop(headers, i + 1, st, cid, garbage)

\* line 82 without its check: the handler runs whatever the flag
AlreadyHandshaked_Never(h) == FALSE

\* line 82
AlreadyHandshaked(h) == h

\* line 86 with >= for ==
IsSwitchingProtocols_AtLeast(status) == status >= SwitchingProtocols

\* line 86
IsSwitchingProtocols(status) == status = SwitchingProtocols

\* line 144 with && in place of ||
HandshakeFailed_All(st) == ~st.accept /\ ~st.connection /\ ~st.upgrade

\* line 144
HandshakeFailed(st) == ~st.accept \/ ~st.connection \/ ~st.upgrade

\* lines 146-148
FailedCalls(st) ==
    (IF ~st.error THEN <<ErrGeneric>> ELSE <<>>) \o <<CallDisconnectAsync>>

\* lines 154-155: the mask key is drawn, then the application is notified
SuccessCalls == <<CallRand, CallWSConnected>>

\* lines 161-162
InvalidStatusCalls(status) == <<ErrStatus, CallDisconnectAsync>>

\* The whole handler, as a function of _handshaked, the response, the client's
\* id and what an out-of-bounds compare returns: the new _handshaked, whether
\* line 154 writes _mask, and the calls made, in order.
ResponseHeader(h, response, cid, garbage) ==
    IF AlreadyHandshaked(h)
    THEN [handshaked |-> h, writesMask |-> FALSE, calls |-> <<>>]
    ELSE IF IsSwitchingProtocols(response.status)
    THEN LET st == HeaderLoop(response.headers, 1, LoopStart, cid, garbage)
         IN  IF HandshakeFailed(st)
             THEN [handshaked |-> h, writesMask |-> FALSE,
                   calls |-> st.calls \o FailedCalls(st)]
             ELSE [handshaked |-> TRUE, writesMask |-> TRUE,
                   calls |-> st.calls \o SuccessCalls]
    ELSE [handshaked |-> h, writesMask |-> FALSE,
          calls |-> InvalidStatusCalls(response.status)]


-----------------------------------------------------------------------------
(* WSClient::PrepareWebSocketFrame, lines 165-205 *)

RECURSIVE XorBits(_, _, _)
XorBits(a, b, n) ==
    IF n = 0 THEN 0
    ELSE (((a % 2) + (b % 2)) % 2) + 2 * XorBits(a \div 2, b \div 2, n - 1)

\* uint8_t ^ uint8_t, tabulated once
XorTab == [a \in 0..255 |-> [b \in 0..255 |-> XorBits(a, b, 8)]]

\* x | 0x80 on a byte
Or80(x) == IF (x \div 128) % 2 = 1 THEN x ELSE x + 128

\* lines 174-189 with the two bytes of the 16-bit size in little-endian order
LengthField_LittleEndian(size) ==
    IF size <= MaxSize7
    THEN <<Or80(size % 256)>>
    ELSE IF size <= MaxSize16
    THEN <<Or80(126), size % 256, (size \div 256) % 256>>
    ELSE <<Or80(127), 0, 0, 0, 0,
           (size \div 16777216) % 256, (size \div 65536) % 256,
           (size \div 256) % 256, size % 256>>

\* lines 174-189: the frame size field
LengthField(size) ==
    IF size <= MaxSize7
    THEN <<Or80(size % 256)>>
    ELSE IF size <= MaxSize16
    THEN <<Or80(126), (size \div 256) % 256, size % 256>>
    ELSE <<Or80(127), 0, 0, 0, 0,
           (size \div 16777216) % 256, (size \div 65536) % 256,
           (size \div 256) % 256, size % 256>>

\* line 204 with _mask[i % 3]
MaskedByte_Mod3(data, mask, i) == XorTab[data[i + 1]][mask[(i % 3) + 1]]

\* line 204: data[i] ^ _mask[i % 4], i counted from 0
MaskedByte(data, mask, i) == XorTab[data[i + 1]][mask[(i % 4) + 1]]

\* line 168 left out
ClearBuffer_Keep(buffer) == buffer

\* line 168: _ws_send_buffer.clear()
ClearBuffer(buffer) == <<>>

\* lines 171-204: what the call appends to the cleared buffer
Frame(opcode, data, size, mask) ==
    <<opcode>> \o LengthField(size) \o <<mask[1], mask[2], mask[3], mask[4]>>
        \o [i \in 1..size |-> MaskedByte(data, mask, i - 1)]

-----------------------------------------------------------------------------
(* Inputs *)

\* the cleared HTTPResponse; also: nothing received
NoResponse == [status |-> 0, headers |-> <<>>]

\* the cleared HTTPRequest
NoRequest == <<>>

HConnOk   == <<"Connection", StrUpgrade>>
HConnBad  == <<"Connection", StrUpgradeLower>>
HUpgOk    == <<"Upgrade", StrWebsocket>>
HUpgBad   == <<"Upgrade", StrWebSocketCaps>>
HAccSample == <<"Sec-WebSocket-Accept", Base64Encode(DigestSample)>>
HAccZero  == <<"Sec-WebSocket-Accept", Base64Encode(DigestZero)>>
HOther    == <<"Server", <<120>>>>

\* Accept values that are not a digest: cut at the zero byte, equal up to the
\* zero byte only, one byte short, one byte long
HAccZeroCut  == <<"Sec-WebSocket-Accept", Base64Encode(SubSeq(DigestZero, 1, 4))>>
HAccZeroTail == <<"Sec-WebSocket-Accept",
                  Base64Encode(SubSeq(DigestZero, 1, 5) \o [i \in 1..15 |-> 255])>>
HAccShort    == <<"Sec-WebSocket-Accept", Base64Encode(SubSeq(DigestSample, 1, 19))>>
HAccLong     == <<"Sec-WebSocket-Accept", Base64Encode(DigestSample \o <<7>>)>>

HeaderPool == {HConnOk, HConnBad, HUpgOk, HUpgBad, HAccSample}

AcceptProbes == {HAccZero, HAccZeroCut, HAccZeroTail, HAccShort, HAccLong}

OtherStatuses == {200, 404}

\* the responses of the handshake specification
AllResponses ==
    {[status |-> SwitchingProtocols, headers |-> h] : h \in SeqsUpTo(HeaderPool, MaxHeaders)}
    \cup {[status |-> SwitchingProtocols, headers |-> <<HConnOk, HUpgOk, a>>] : a \in AcceptProbes}
    \cup {[status |-> SwitchingProtocols, headers |-> <<a, HUpgOk, HConnOk>>] : a \in AcceptProbes}
    \cup {[status |-> SwitchingProtocols, headers |-> h] :
             h \in {<<HOther>>, <<HOther, HConnOk, HUpgOk, HAccSample>>,
                    <<HConnOk, HOther, HUpgOk, HAccZero, HOther>>,
                    <<HOther, HConnBad>>, <<HUpgOk, HOther, HAccSample>>}}
    \cup {[status |-> s, headers |-> h] :
             s \in OtherStatuses, h \in SeqsUpTo({HConnOk, HUpgOk, HAccSample}, MaxHeaders - 1)}

\* the responses of the full specification: the two valid handshakes (each
\* valid for one id only), a wrong status, a bad header, a missing header
SmallResponses ==
    {[status |-> SwitchingProtocols, headers |-> <<HConnOk, HUpgOk, HAccSample>>],
     [status |-> SwitchingProtocols, headers |-> <<HAccZero, HUpgOk, HConnOk>>],
     [status |-> 200, headers |-> <<HConnOk, HUpgOk, HAccSample>>],
     [status |-> SwitchingProtocols, headers |-> <<HConnBad, HUpgOk>>],
     [status |-> SwitchingProtocols, headers |-> <<HOther, HConnOk>>]}

\* what rand() can leave in _mask (little-endian, 0 <= rand() <= RAND_MAX)
RandMasks == {<<0, 0, 0, 0>>, <<103, 69, 35, 1>>}

\* what _mask can hold before it is first written
UninitMasks == {<<0, 0, 0, 0>>, <<255, 170, 85, 129>>}

\* what onWSConnecting can leave in the request
HookRequests == {<<"GET /">>, <<"GET /chat", "Upgrade: websocket">>}

\* a payload of `len` bytes: seed, seed + 37, seed + 74, ... (mod 256)
PayloadBytes(len, seed) == [i \in 1..len |-> (seed + 37 * (i - 1)) % 256]

Opcodes == {129, 130}

\* the message an application makes up on the spot: 5 bytes from seed 77
SmallPayloads == {<<5, 77>>}

\* messages <<opcode, length, seed>> of every size class, at the edges of each
FrameInputs ==
    {<<o, l, s>> : o \in Opcodes, l \in {0, 1, 3, 4, 5, 124, 125, 126, 127, 300},
                   s \in {0, 219}}
    \cup {<<129, 65535, 1>>, <<130, 65536, 219>>, <<129, 65537, 0>>, <<130, 70000, 5>>}

-----------------------------------------------------------------------------
(* The state after construction *)

Init ==
    /\ id \in Ids
    /\ _handshaked = FALSE
    /\ _sync_connect \in BOOLEAN
    /\ _mask \in UninitMasks
    /\ _request = NoRequest
    /\ _response = NoResponse
    /\ _ws_send_buffer = <<>>
    /\ rx = NoResponse
    /\ tx = <<>>
    /\ out = [op |-> "init", pre |-> FALSE, status |-> 0, frame |-> <<>>, calls |-> <<>>,
             prev |-> 0]
    /\ connected = FALSE
    /\ disconnecting = FALSE
    /\ maskGenerated = FALSE
    /\ passes = 0
    /\ lifeFlips = 0
    /\ lifeWSConnected = 0
    /\ periodWSDisc = 0
    /\ lastConnect = "none"
    /\ wsOpen = FALSE

\* history counters saturate here
CounterCap == 2

Sat(n) == IF n > CounterCap THEN CounterCap ELSE n

\* The record of an operation `op` that made `calls` and left _handshaked = h2
Hist(op, status, frame, calls, h2) ==
    /\ out' = [op |-> op, pre |-> _handshaked, status |-> status, frame |-> frame,
               calls |-> calls, prev |-> Len(_ws_send_buffer)]
    /\ connected' = IF op = "onConnected" THEN TRUE
                    ELSE IF op = "onDisconnected" THEN FALSE ELSE connected
    /\ disconnecting' = IF op = "onConnected" THEN FALSE
                        ELSE disconnecting \/ Has(calls, CallDisconnectAsync)
    /\ passes' = IF op = "onConnected" THEN 0
                 ELSE Sat(passes + Count(calls, CallWSConnected))
    /\ lifeFlips' = IF op \in {"onConnected", "onDisconnected"} THEN 0
                    ELSE Sat(lifeFlips + (IF ~_handshaked /\ h2 THEN 1 ELSE 0))
    /\ lifeWSConnected' = IF op \in {"onConnected", "onDisconnected"} THEN 0
                          ELSE Sat(lifeWSConnected + Count(calls, CallWSConnected))
    /\ periodWSDisc' = IF Has(calls, CallWSConnected) THEN 0
                       ELSE Sat(periodWSDisc + Count(calls, CallWSDisconnected))
    /\ lastConnect' = IF op \in {"Connect", "ConnectAsync"} THEN op ELSE lastConnect
    /\ wsOpen' = IF Has(calls, CallWSConnected) THEN TRUE
                 ELSE IF Has(calls, CallWSDisconnected) THEN FALSE ELSE wsOpen


-----------------------------------------------------------------------------
(* WSClient::Connect, WSClient::ConnectAsync, lines 19-41 *)

Connect ==
    /\ _sync_connect' = TRUE
    /\ Hist("Connect", 0, <<>>, <<CallHTTPConnect>>, _handshaked)
    /\ UNCHANGED <<id, _handshaked, _mask, _request, _response, _ws_send_buffer, rx,
                   tx, maskGenerated>>

ConnectAsync ==
    /\ _sync_connect' = FALSE
    /\ Hist("ConnectAsync", 0, <<>>, <<CallHTTPConnectAsync>>, _handshaked)
    /\ UNCHANGED <<id, _handshaked, _mask, _request, _response, _ws_send_buffer, rx,
                   tx, maskGenerated>>

-----------------------------------------------------------------------------
(* WSClient::onConnected, lines 43-56 *)

\* lines 52-55 with the two branches exchanged
SendCall_Swapped(sync) == IF sync THEN CallSendAsync ELSE CallSend

\* lines 52-55
SendCall(sync) == IF sync THEN CallSend ELSE CallSendAsync

\* line 49: HTTPRequest::SetBody() with no body
SetBody(req) == Append(req, "Content-Length: 0")

onConnected ==
    \E filled \in HookRequests :
        /\ _request' = SetBody(filled)
        /\ Hist("onConnected", 0, <<>>,
                <<CallWSConnecting, CallSetBody, SendCall(_sync_connect)>>, _handshaked)
        /\ UNCHANGED <<id, _handshaked, _sync_connect, _mask, _response,
                       _ws_send_buffer, rx, tx, maskGenerated>>

-----------------------------------------------------------------------------
(* WSClient::onDisconnected, lines 58-70 *)

\* lines 61-63 without the reset of line 63
DisconnectedHandshaked_Keep(h) == h

\* lines 61-63
DisconnectedHandshaked(h) == IF h THEN FALSE ELSE h

\* lines 61-65 with the notification outside the if
DisconnectedCalls_Always(h) == <<CallWSDisconnected>>

\* lines 61-65
DisconnectedCalls(h) == IF h THEN <<CallWSDisconnected>> ELSE <<>>

\* line 68 left out
ClearRequest_Keep(req) == req

\* line 68
ClearRequest(req) == NoRequest

\* line 69
ClearResponse(resp) == NoResponse

onDisconnected ==
    /\ _handshaked' = DisconnectedHandshaked(_handshaked)
    /\ _request' = ClearRequest(_request)
    /\ _response' = ClearResponse(_response)
    /\ Hist("onDisconnected", 0, <<>>, DisconnectedCalls(_handshaked),
            DisconnectedHandshaked(_handshaked))
    /\ UNCHANGED <<id, _sync_connect, _mask, _ws_send_buffer, rx, tx, maskGenerated>>

-----------------------------------------------------------------------------
(* The transport: bytes arrive, the application asks to disconnect *)

\* the server's bytes reach the socket; the transport holds them until it
\* calls onReceived
Arrive(responses) ==
    /\ rx = NoResponse
    /\ \E r \in responses : rx' = r
    /\ Hist("Arrive", 0, <<>>, <<>>, _handshaked)
    /\ UNCHANGED <<id, _handshaked, _sync_connect, _mask, _request, _response,
                   _ws_send_buffer, tx, maskGenerated>>

\* TCPClient::DisconnectAsync(), called by the application
DisconnectAsync ==
    /\ Hist("DisconnectAsync", 0, <<>>, <<CallDisconnectAsync>>, _handshaked)
    /\ UNCHANGED <<id, _handshaked, _sync_connect, _mask, _request, _response,
                   _ws_send_buffer, rx, tx, maskGenerated>>

-----------------------------------------------------------------------------
(* WSClient::onReceivedResponseHeader as a step, lines 79-163 *)

\* line 154 moved to the top of the handler: every call draws a new key
Handshake_AlwaysRand(r, m) ==
    /\ _handshaked' = r.handshaked
    /\ _mask' = m
    /\ maskGenerated' = (maskGenerated \/ r.writesMask)

\* what the handler does to the client, given its result r and the value m of rand()
Handshake(r, m) ==
    /\ _handshaked' = r.handshaked
    /\ _mask' = IF r.writesMask THEN m ELSE _mask
    /\ maskGenerated' = (maskGenerated \/ r.writesMask)

\* the HTTP layer hands the parsed response to the handler
onReceivedResponseHeader ==
    /\ rx # NoResponse
    /\ \E garbage \in {0, 1} :
          LET r == ResponseHeader(_handshaked, rx, id, garbage)
          IN  /\ \E m \in RandMasks : Handshake(r, m)
              /\ Hist("onReceivedResponseHeader", rx.status, <<>>, r.calls, r.handshaked)
    /\ rx' = NoResponse
    /\ UNCHANGED <<id, _sync_connect, _request, _response, _ws_send_buffer, tx>>

-----------------------------------------------------------------------------
(* WSClient::onReceived, lines 72-77, with HTTPClient::onReceived *)

\* line 75
RoutesToHTTP(h) == ~h

\* HTTPClient::onReceived: with no header pending in _response the bytes are a
\* response header, stored and handed to onReceivedResponseHeader; a response
\* whose body is complete is cleared.  Otherwise the bytes are body bytes.
HTTPOnReceived ==
    IF _response = NoResponse
    THEN \E garbage \in {0, 1}, complete \in BOOLEAN :
            LET r == ResponseHeader(_handshaked, rx, id, garbage)
            IN  /\ \E m \in RandMasks : Handshake(r, m)
                /\ _response' = IF complete THEN NoResponse ELSE rx
                /\ Hist("onReceived", rx.status, <<>>,
                        <<CallHTTPOnReceived, CallResponseHeader>> \o r.calls, r.handshaked)
    ELSE \E complete \in BOOLEAN :
            /\ _response' = IF complete THEN NoResponse ELSE _response
            /\ Hist("onReceived", 0, <<>>, <<CallHTTPOnReceived>>, _handshaked)
            /\ UNCHANGED <<_handshaked, _mask, maskGenerated>>

onReceived ==
    /\ rx # NoResponse
    /\ IF RoutesToHTTP(_handshaked)
       THEN HTTPOnReceived
       ELSE /\ Hist("onReceived", 0, <<>>, <<>>, _handshaked)
            /\ UNCHANGED <<_handshaked, _mask, maskGenerated, _response>>
    /\ rx' = NoResponse
    /\ UNCHANGED <<id, _sync_connect, _request, _ws_send_buffer, tx>>

-----------------------------------------------------------------------------
(* WSClient::PrepareWebSocketFrame as a step, lines 165-205 *)

PrepareWebSocketFrame(opcode, payload) ==
    /\ _ws_send_buffer' =
          ClearBuffer(_ws_send_buffer)
              \o Frame(opcode, PayloadBytes(payload[1], payload[2]), payload[1], _mask)
    /\ Hist("PrepareWebSocketFrame", 0, <<opcode, payload[1], payload[2]>>, <<>>,
            _handshaked)
    /\ UNCHANGED <<id, _handshaked, _sync_connect, _mask, _request, _response, rx,
                   maskGenerated>>

-----------------------------------------------------------------------------
(* Specifications *)

ArriveSmall == Arrive(SmallResponses)

\* the application encodes a message it has just made up
PrepareSmallFrame ==
    /\ \E p \in SmallPayloads : PrepareWebSocketFrame(129, p)
    /\ UNCHANGED tx

\* the application encodes the message it had ready
PrepareQueuedFrame ==
    /\ tx # <<>>
    /\ PrepareWebSocketFrame(tx[1], <<tx[2], tx[3]>>)
    /\ tx' = <<>>

\* every operation, on a small set of responses and payloads
Next ==
    \/ onDisconnected
    \/ Connect
    \/ ConnectAsync
    \/ onConnected
    \/ ArriveSmall
    \/ DisconnectAsync
    \/ onReceived
    \/ onReceivedResponseHeader
    \/ PrepareSmallFrame

Spec == Init /\ [][Next]_vars

\* the handshake: the first response is any response over the header pool
InitHandshake ==
    /\ id \in Ids
    /\ _handshaked = FALSE
    /\ _sync_connect \in BOOLEAN
    /\ _mask \in UninitMasks
    /\ _request = NoRequest
    /\ _response = NoResponse
    /\ _ws_send_buffer = <<>>
    /\ rx \in AllResponses
    /\ tx = <<>>
    /\ out = [op |-> "init", pre |-> FALSE, status |-> 0, frame |-> <<>>, calls |-> <<>>,
             prev |-> 0]
    /\ connected = FALSE
    /\ disconnecting = FALSE
    /\ maskGenerated = FALSE
    /\ passes = 0
    /\ lifeFlips = 0
    /\ lifeWSConnected = 0
    /\ periodWSDisc = 0
    /\ lastConnect = "none"
    /\ wsOpen = FALSE

NextHandshake ==
    \/ onReceivedResponseHeader
    \/ onDisconnected
    \/ ArriveSmall

SpecHandshake == InitHandshake /\ [][NextHandshake]_vars

\* the frame encoder: the first message is any message of FrameInputs
InitFrame ==
    /\ id \in Ids
    /\ _handshaked = FALSE
    /\ _sync_connect \in BOOLEAN
    /\ _mask \in UninitMasks
    /\ _request = NoRequest
    /\ _response = NoResponse
    /\ _ws_send_buffer = <<>>
    /\ rx = NoResponse
    /\ tx \in FrameInputs
    /\ out = [op |-> "init", pre |-> FALSE, status |-> 0, frame |-> <<>>, calls |-> <<>>,
             prev |-> 0]
    /\ connected = FALSE
    /\ disconnecting = FALSE
    /\ maskGenerated = FALSE
    /\ passes = 0
    /\ lifeFlips = 0
    /\ lifeWSConnected = 0
    /\ periodWSDisc = 0
    /\ lastConnect = "none"
    /\ wsOpen = FALSE

NextFrame ==
    \/ PrepareQueuedFrame
    \/ PrepareSmallFrame

SpecFrame == InitFrame /\ [][NextFrame]_vars


-----------------------------------------------------------------------------
(* Vocabulary of the claims *)

\* the last operation ran onReceivedResponseHeader
HeaderDelivered(o) ==
    o.op = "onReceivedResponseHeader" \/ Has(o.calls, CallResponseHeader)

\* the response has a header `key`, and every header `key` has the value v
HeaderEquals(response, key, v) ==
    /\ \E i \in 1..Len(response.headers) : response.headers[i][1] = key
    /\ \A i \in 1..Len(response.headers) :
          response.headers[i][1] = key => response.headers[i][2] = v

\* the response has a Sec-WebSocket-Accept header, and every one decodes to
\* the 20 bytes of the expected digest
AcceptMatches(response, cid) ==
    /\ \E i \in 1..Len(response.headers) : response.headers[i][1] = "Sec-WebSocket-Accept"
    /\ \A i \in 1..Len(response.headers) :
          response.headers[i][1] = "Sec-WebSocket-Accept"
              => Base64Decode(response.headers[i][2]) = WsHash(cid)

ValidUpgrade(response, cid) ==
    /\ response.status = 101
    /\ HeaderEquals(response, "Connection", StrUpgrade)
    /\ HeaderEquals(response, "Upgrade", StrWebsocket)
    /\ AcceptMatches(response, cid)

-----------------------------------------------------------------------------
(* C1 *)

\* C1: a response delivered to onReceivedResponseHeader while not handshaked
\* completes the handshake (_handshaked set, onWSConnected called) if and only
\* if its status is 101, Connection is "Upgrade", Upgrade is "websocket" and
\* Sec-WebSocket-Accept decodes to the expected digest.
C1_HandshakeIffValid ==
    [][ (rx # NoResponse /\ ~_handshaked /\ HeaderDelivered(out'))
          => ((_handshaked' /\ Has(out'.calls, CallWSConnected))
                 <=> ValidUpgrade(rx, id)) ]_vars

-----------------------------------------------------------------------------
(* C2 *)

\* C2: a call of onReceivedResponseHeader that reports an error also issues
\* DisconnectAsync, and neither sets _handshaked nor calls onWSConnected.
C2_ErrorIsTerminal ==
    (HeaderDelivered(out) /\ ~out.pre /\ ErrorCount(out.calls) >= 1)
        => /\ Has(out.calls, CallDisconnectAsync)
           /\ ~_handshaked
           /\ ~Has(out.calls, CallWSConnected)

-----------------------------------------------------------------------------
(* C3 *)

\* C3: once a disconnect has been requested for a connection, and until the
\* next onConnected, no step sets _handshaked or calls onWSConnected.
C3_NoHandshakeAfterDisconnect ==
    [][ (connected /\ disconnecting)
          => /\ (~_handshaked => ~_handshaked')
             /\ ~Has(out'.calls, CallWSConnected) ]_vars

-----------------------------------------------------------------------------
(* C4 *)

\* C4: a mask key that has been generated exists only while the client is
\* handshaked, and a handshaked client has passed validation exactly once
\* since the last connect.
C4_MaskOnlyWhileHandshaked ==
    /\ maskGenerated => _handshaked
    /\ _handshaked => passes = 1

-----------------------------------------------------------------------------
(* C5 *)

\* C5: between one successful handshake and the next, onWSDisconnected is
\* called at most once however many times onDisconnected is delivered, and an
\* onDisconnected delivered while not handshaked calls none.
C5_WSDisconnectedAtMostOnce ==
    /\ periodWSDisc <= 1
    /\ (out.op = "onDisconnected" /\ ~out.pre) => ~Has(out.calls, CallWSDisconnected)

\* a second disconnect notification of the same handshake period
C5_Witness ==
    /\ out.op = "onDisconnected"
    /\ ~out.pre
    /\ periodWSDisc = 1

-----------------------------------------------------------------------------
(* C6 *)

\* C6: a response whose status is not 101, delivered while not handshaked,
\* whatever its headers: no onWSConnected, _handshaked stays false, exactly
\* one onError, and DisconnectAsync is issued.
C6_WrongStatusRejected ==
    (HeaderDelivered(out) /\ ~out.pre /\ out.status # 101)
        => /\ ~Has(out.calls, CallWSConnected)
           /\ ~_handshaked
           /\ ErrorCount(out.calls) = 1
           /\ Count(out.calls, CallDisconnectAsync) = 1

\* a 200 response has been rejected
C6_Witness ==
    /\ out.op = "onReceivedResponseHeader"
    /\ ~out.pre
    /\ out.status = 200
    /\ out.calls = <<ErrStatus, CallDisconnectAsync>>
    /\ ~_handshaked

-----------------------------------------------------------------------------
(* C7 *)

\* C7: after every onDisconnected the stored request and response are empty
\* and _handshaked is false; an onDisconnected that directly follows another
\* leaves the client's state as it was.
C7_DisconnectedClears ==
    [][ out'.op = "onDisconnected"
          => /\ _request' = NoRequest
             /\ _response' = NoResponse
             /\ ~_handshaked'
             /\ (out.op = "onDisconnected" => progVars' = progVars) ]_vars

\* onDisconnected has torn down a handshaked client
C7_Witness ==
    /\ out.op = "onDisconnected"
    /\ out.pre
    /\ Has(out.calls, CallWSDisconnected)
    /\ _request = NoRequest
    /\ _response = NoResponse
    /\ ~_handshaked

-----------------------------------------------------------------------------
(* C8 *)

\* C8: between an onConnected and the following onDisconnected, _handshaked
\* goes from false to true at most once and onWSConnected is called at most
\* once.
C8_OneHandshakePerLifetime ==
    /\ lifeFlips <= 1
    /\ lifeWSConnected <= 1

\* a further 101 response was delivered to the handler after the handshake of
\* this connection
C8_Witness ==
    /\ connected
    /\ out.op = "onReceivedResponseHeader"
    /\ out.pre
    /\ out.status = 101
    /\ lifeFlips = 1
    /\ lifeWSConnected = 1

-----------------------------------------------------------------------------
(* C9 *)

\* C9: the frame starts with the opcode; then the length field, mask bit set:
\* one byte L|0x80 for L <= 125, 126|0x80 and L in 2 bytes big-endian for
\* L <= 65535, else 127|0x80 and 8 bytes, the top 4 zero and the low 4 L
\* big-endian; the frame is 6+L, 8+L or 14+L bytes long.
C9_LengthField ==
    out.op = "PrepareWebSocketFrame"
        => LET f == _ws_send_buffer
               L == out.frame[2]
           IN  /\ f[1] = out.frame[1]
               /\ f[2] >= 128
               /\ IF L <= 125
                  THEN f[2] = L + 128 /\ Len(f) = 6 + L
                  ELSE IF L <= 65535
                  THEN /\ f[2] = 126 + 128
                       /\ f[3] * 256 + f[4] = L
                       /\ Len(f) = 8 + L
                  ELSE /\ f[2] = 127 + 128
                       /\ f[3] = 0 /\ f[4] = 0 /\ f[5] = 0 /\ f[6] = 0
                       /\ f[7] * 16777216 + f[8] * 65536 + f[9] * 256 + f[10] = L
                       /\ Len(f) = 14 + L

\* a payload of 65536 bytes, the first with the 8-byte length, has been framed
C9_Witness ==
    /\ out.op = "PrepareWebSocketFrame"
    /\ out.frame[2] = 65536
    /\ Len(_ws_send_buffer) = 65550

-----------------------------------------------------------------------------
(* C10 *)

\* bytes of the frame before the mask key, for a payload of L bytes
HeaderBytes(L) == IF L <= 125 THEN 2 ELSE IF L <= 65535 THEN 4 ELSE 10

\* C10: the frame carries the 4 bytes of the mask key right before the
\* payload section, the section is as long as the payload, and byte i of it
\* XOR maskKey[i mod 4] is byte i of the payload.
C10_MaskingInvolution ==
    out.op = "PrepareWebSocketFrame"
        => LET f   == _ws_send_buffer
               L   == out.frame[2]
               p   == PayloadBytes(out.frame[2], out.frame[3])
               off == HeaderBytes(L)
           IN  /\ Len(f) = off + 4 + L
               /\ \A k \in 1..4 : f[off + k] = _mask[k]
               /\ \A i \in 0..(L - 1) :
                     XorBits(f[off + 4 + i + 1], _mask[(i % 4) + 1], 8) = p[i + 1]

\* a payload longer than the key has been masked with a key of four different
\* bytes
C10_Witness ==
    /\ out.op = "PrepareWebSocketFrame"
    /\ out.frame[2] = 5
    /\ _mask = <<255, 170, 85, 129>>
    /\ Len(_ws_send_buffer) = 11

-----------------------------------------------------------------------------
(* C11 *)

\* C11: a response delivered to onReceivedResponseHeader while the client is
\* handshaked changes nothing: the handler makes no call (no onError, no
\* onWSConnected, no DisconnectAsync) and leaves _handshaked, _mask, the
\* request and the response as they were.
C11_NoOpWhenHandshaked ==
    [][ (rx # NoResponse /\ _handshaked /\ out'.op = "onReceivedResponseHeader")
          => /\ out'.calls = <<>>
             /\ progVars' = progVars ]_vars

\* a response with a status other than 101 has been delivered to a handshaked
\* client, which stayed handshaked and made no call
C11_Witness ==
    /\ out.op = "onReceivedResponseHeader"
    /\ out.pre
    /\ out.status = 200
    /\ out.calls = <<>>
    /\ _handshaked

-----------------------------------------------------------------------------
(* Vocabulary of the validation claims *)

\* the value of one header is invalid: a Connection other than "Upgrade", an
\* Upgrade other than "websocket", a Sec-WebSocket-Accept that does not decode
\* to exactly the 20 bytes of the expected digest; no other key has a rule
InvalidHeader(hd, cid) ==
    \/ hd[1] = "Connection" /\ hd[2] # StrUpgrade
    \/ hd[1] = "Upgrade" /\ hd[2] # StrWebsocket
    \/ hd[1] = "Sec-WebSocket-Accept" /\ Base64Decode(hd[2]) # WsHash(cid)

\* the index of the first header, in list order, with an invalid value; 0 if none
FirstInvalid(headers, cid) ==
    LET bad == {i \in 1..Len(headers) : InvalidHeader(headers[i], cid)}
    IN  IF bad = {} THEN 0 ELSE CHOOSE i \in bad : \A k \in bad : i <= k

\* the error that names the header `key`
ErrorOf(key) ==
    IF key = "Connection" THEN ErrConnection
    ELSE IF key = "Upgrade" THEN ErrUpgrade
    ELSE ErrAccept

\* a 101 response is being delivered to the handler of a client that is not handshaked
Validates101 ==
    rx # NoResponse /\ ~_handshaked /\ HeaderDelivered(out') /\ rx.status = 101

-----------------------------------------------------------------------------
(* C14 *)

\* C14: a Sec-WebSocket-Accept value that the validation reaches and that does
\* not decode to exactly the 20 bytes of the expected digest (shorter, longer,
\* or equal to it only up to a zero byte) is rejected with the mismatch error.
C14_AcceptExactDigest ==
    [][ (/\ Validates101
         /\ FirstInvalid(rx.headers, id) # 0
         /\ rx.headers[Max(FirstInvalid(rx.headers, id), 1)][1] = "Sec-WebSocket-Accept")
          => Has(out'.calls, ErrAccept) ]_vars

-----------------------------------------------------------------------------
(* C12 *)

\* the calls the handler made in the last operation
HandlerCalls(o) ==
    IF o.op = "onReceivedResponseHeader" THEN o.calls
    ELSE SubSeq(o.calls, 3, Len(o.calls))

\* the headers whose key the validation has a rule for
IsRuledHeader(hd) == hd[1] \in {"Connection", "Upgrade", "Sec-WebSocket-Accept"}

\* delivering `headers` with status 101 to a client that is not handshaked can
\* end with _handshaked = h2 after the calls `calls`
SameOutcome(headers, cid, h2, calls) ==
    \E g \in {0, 1} :
        LET r == ResponseHeader(FALSE, [status |-> 101, headers |-> headers], cid, g)
        IN  r.handshaked = h2 /\ r.calls = calls

\* C12: the validation of a 101 response is one pass in header order that the
\* first header with an invalid value cuts short: a response that fails gets
\* exactly one onError; if some header is invalid the error is the one of the
\* first invalid header, and the headers after it do not change the outcome;
\* headers with other keys do not change the outcome.
C12_FirstInvalidDecides ==
    [][ Validates101
          => LET j == FirstInvalid(rx.headers, id)
                 calls == HandlerCalls(out')
             IN  /\ ~_handshaked' => ErrorCount(calls) = 1
                 /\ j # 0 => /\ ErrorCount(calls) = 1
                             /\ Has(calls, ErrorOf(rx.headers[Max(j, 1)][1]))
                             /\ SameOutcome(SubSeq(rx.headers, 1, j), id,
                                            _handshaked', calls)
                 /\ SameOutcome(SelectSeq(rx.headers, IsRuledHeader), id,
                                _handshaked', calls) ]_vars

-----------------------------------------------------------------------------
(* C13 *)

\* some one of Connection, Upgrade, Sec-WebSocket-Accept is not among the headers
SomeRuledHeaderAbsent(headers) ==
    \E key \in {"Connection", "Upgrade", "Sec-WebSocket-Accept"} :
        \A i \in 1..Len(headers) : headers[i][1] # key

\* C13: a 101 response in which no header has an invalid value but at least
\* one of Connection, Upgrade, Sec-WebSocket-Accept is absent gets exactly one
\* error, the generic "Invalid WebSocket response", then DisconnectAsync, and
\* the client is not handshaked and onWSConnected is not called.
C13_MissingHeaderGeneric ==
    [][ (/\ Validates101
         /\ FirstInvalid(rx.headers, id) = 0
         /\ SomeRuledHeaderAbsent(rx.headers))
          => /\ HandlerCalls(out') = <<ErrGeneric, CallDisconnectAsync>>
             /\ ~_handshaked' ]_vars

\* a 101 response that lacks a required header, and in which the pass found
\* nothing invalid, has been rejected with the generic error alone
C13_Witness ==
    /\ out.op = "onReceivedResponseHeader"
    /\ ~out.pre
    /\ out.status = 101
    /\ out.calls = <<ErrGeneric, CallDisconnectAsync>>
    /\ ~_handshaked
    /\ ~wsOpen

-----------------------------------------------------------------------------
(* C15 *)

\* C15: the mask key is written only in the step that takes the client from
\* not handshaked to handshaked.  That step draws the key once, after the
\* validation and right before onWSConnected, and it is the first such step of
\* its connection; no other step of any operation changes the key, so it is
\* constant until the disconnect; every step that sets the flag draws a key.
C15_MaskWrittenAtHandshake ==
    [][ LET flips == ~_handshaked /\ _handshaked'
            calls == out'.calls
        IN  /\ _mask' # _mask => flips /\ HeaderDelivered(out')
            /\ Has(calls, CallRand) <=> flips
            /\ flips => /\ Count(calls, CallRand) = 1
                        /\ Len(calls) >= 2
                        /\ SubSeq(calls, Len(calls) - 1, Len(calls))
                               = <<CallRand, CallWSConnected>>
                        /\ lifeFlips = 0
                        /\ maskGenerated' ]_vars

\* the handshake of a connection has drawn a key other than the one the
\* buffer had at construction
C15_Witness ==
    /\ HeaderDelivered(out)
    /\ Has(out.calls, CallRand)
    /\ _handshaked
    /\ connected
    /\ maskGenerated
    /\ _mask = <<103, 69, 35, 1>>

-----------------------------------------------------------------------------
(* C16 *)

\* C16: each onConnected calls onWSConnecting, then sets the empty body, then
\* sends the request exactly once: with Send if the most recent connect call
\* was Connect, with SendAsync if it was ConnectAsync.  No operation other
\* than Connect and ConnectAsync changes _sync_connect.
C16_SendModeFromConnect ==
    [][ /\ out'.op \notin {"Connect", "ConnectAsync"} => _sync_connect' = _sync_connect
        /\ out'.op = "onConnected"
             => /\ Len(out'.calls) = 3
                /\ out'.calls[1] = CallWSConnecting
                /\ out'.calls[2] = CallSetBody
                /\ out'.calls[3] \in {CallSend, CallSendAsync}
                /\ lastConnect = "Connect" => out'.calls[3] = CallSend
                /\ lastConnect = "ConnectAsync" => out'.calls[3] = CallSendAsync ]_vars

\* onConnected has sent the upgrade request with SendAsync, the most recent
\* connect call being ConnectAsync, in a run that also had a handshake
C16_Witness ==
    /\ out.op = "onConnected"
    /\ lastConnect = "ConnectAsync"
    /\ out.calls = <<CallWSConnecting, CallSetBody, CallSendAsync>>
    /\ maskGenerated

-----------------------------------------------------------------------------
(* C17 *)

\* the call that would hand received bytes to a frame decoder
CallFrameDecoder == "FrameDecoder"

\* C17: received bytes go to the HTTP response parsing while the client is not
\* handshaked, and only then; once handshaked they are not passed to the HTTP
\* parsing and go to the frame decoder instead.
C17_RoutesToFrameDecoder ==
    out.op = "onReceived"
        => /\ ~out.pre => Has(out.calls, CallHTTPOnReceived)
           /\ out.pre => /\ ~Has(out.calls, CallHTTPOnReceived)
                         /\ Has(out.calls, CallFrameDecoder)

-----------------------------------------------------------------------------
(* C18 *)

\* the connection states of the specification
ConnectionState ==
    IF _handshaked THEN "Handshaked"
    ELSE IF connected THEN "HandshakePending" ELSE "Idle"

\* C18: Handshaked is entered only from HandshakePending, that is only when
\* onConnected has occurred since the last onDisconnected: a step taken while
\* Idle, such as the delivery of a valid 101 response, neither sets
\* _handshaked nor calls onWSConnected.
C18_HandshakedOnlyFromPending ==
    [][ ConnectionState = "Idle"
          => /\ ~_handshaked'
             /\ ~Has(out'.calls, CallWSConnected) ]_vars

-----------------------------------------------------------------------------
(* C19 *)

\* C19: every call of PrepareWebSocketFrame rebuilds the send buffer from
\* nothing: whatever the earlier calls left in it, a longer frame included,
\* the buffer after the call is the frame of the call's opcode and payload
\* under the current mask key, and has that frame's length.
C19_BufferRebuilt ==
    out.op = "PrepareWebSocketFrame"
        => LET L == out.frame[2]
           IN  /\ Len(_ws_send_buffer) = HeaderBytes(L) + 4 + L
               /\ _ws_send_buffer
                     = Frame(out.frame[1], PayloadBytes(L, out.frame[3]), L, _mask)

\* a 5-byte message has been encoded into a buffer that held a longer frame
C19_Witness ==
    /\ out.op = "PrepareWebSocketFrame"
    /\ out.frame = <<129, 5, 77>>
    /\ out.prev > 11
    /\ Len(_ws_send_buffer) = 11
    /\ tx = <<>>

-----------------------------------------------------------------------------
(* C20 *)

\* C20: the calls of onWSConnected and onWSDisconnected alternate, starting
\* with onWSConnected: onWSDisconnected is called only after an onWSConnected
\* that no onWSDisconnected has followed yet, onWSConnected only when every
\* earlier onWSConnected has been followed by its onWSDisconnected, and no
\* operation makes more than one of these calls.
C20_NotificationsAlternate ==
    [][ LET calls == out'.calls
        IN  /\ Has(calls, CallWSDisconnected) => wsOpen
            /\ Has(calls, CallWSConnected) => ~wsOpen
            /\ Count(calls, CallWSConnected) + Count(calls, CallWSDisconnected) <= 1 ]_vars

\* a second onWSConnected has been called, after the onWSDisconnected that
\* closed the first (the key of the first handshake was 103 69 35 1, and the
\* new one is 0 0 0 0)
C20_Witness ==
    /\ Has(out.calls, CallWSConnected)
    /\ wsOpen
    /\ _mask = <<0, 0, 0, 0>>
    /\ _ws_send_buffer # <<>>
    /\ _ws_send_buffer[3] = 103

=============================================================================
